---- MODULE Spec2Model ----
(***************************************************************************)
(* Model of the volume / market-cap screening tools of freq_conf:         *)
(*   src/tools/binance.py            live 24h-ticker screener, cache kept  *)
(*                                   as a bare mapping aged by file mtime  *)
(*                                   (variant "legacy")                    *)
(*   src/tools/self_time.py          historical screener, cache kept as    *)
(*   src/tools/self_time_50bilile.py {"timestamp", "data"} (variant        *)
(*                                   "timestamp"; the two files hold the   *)
(*                                   same get_coingecko_market_caps up to  *)
(*                                   the request timeout and a sleep)      *)
(*                                                                         *)
(* Spec       : sequences of get_coingecko_market_caps calls on one cache  *)
(*              file, with the clock, the file's permissions and the page  *)
(*              requests' outcomes chosen by the environment.              *)
(* SpecScreen : one call of get_high_volume_to_marketcap_contracts.        *)
(* SpecWorker : one direct call of _check_symbol_volume_ratio.             *)
(* SpecRun    : one call of the historical screener, cache call included.  *)
(* SpecWindow : the candle windows get_daily_volume requests.              *)
(***************************************************************************)
EXTENDS Integers, Sequences, FiniteSets, TLC

(***************************************************************************)
(* Bounds of the model.                                                    *)
(***************************************************************************)
\* the `pages` argument of every call (the default in the source is 7)
Pages == 2
\* number of clock ticks that may pass in one behaviour
MaxTicks == 2
\* the cache_ttl argument, in clock ticks (the default is 7 days)
CacheTtl == 2

(***************************************************************************)
(* JSON values.  Python's None is encoded as the number -1, which no       *)
(* market cap takes; a market-cap mapping is a function from tickers to    *)
(* numbers.                                                                *)
(***************************************************************************)
None == 0 - 1

EmptyMap == [k \in {} |-> 0]

\* dict.__setitem__
Put(m, k, v) == [x \in (DOMAIN m) \cup {k} |-> IF x = k THEN v ELSE m[x]]

\* Python truthiness of a JSON number or null: `if market_cap`
Truthy(x) == x # None /\ x # 0

\* str.upper() on the tickers of the model
Upper(s) ==
    CASE s = "a" -> "A"
      [] s = "b" -> "B"
      [] s = "btc" -> "BTC"
      [] OTHER -> s

(***************************************************************************)
(* The cache file and what json.load makes of it.                          *)
(*   fmt = "bare"    : the mapping itself (written by binance.py)          *)
(*   fmt = "wrapped" : {"timestamp": ts, "data": mapping} (self_time.py)   *)
(*   fmt = "corrupt" : not JSON                                            *)
(***************************************************************************)
NoFile == [exists |-> FALSE, fmt |-> "none", mtime |-> 0, ts |-> 0, data |-> EmptyMap]

BareFile(m, t) == [exists |-> TRUE, fmt |-> "bare", mtime |-> t, ts |-> 0, data |-> m]

WrappedFile(m, stamp, t) ==
    [exists |-> TRUE, fmt |-> "wrapped", mtime |-> t, ts |-> stamp, data |-> m]

CorruptFile(t) == [exists |-> TRUE, fmt |-> "corrupt", mtime |-> t, ts |-> 0, data |-> EmptyMap]

\* What a call hands back: a market-cap mapping ("caps"), the wrapper object
\* of a timestamp-format file ("wrapper"), an exception ("raised"), or
\* nothing yet ("none").
NoResult == [kind |-> "none", ts |-> 0, data |-> EmptyMap]

Raised == [kind |-> "raised", ts |-> 0, data |-> EmptyMap]

Caps(m) == [kind |-> "caps", ts |-> 0, data |-> m]

\* open(cache_path, "r") followed by json.load(f)
JsonLoad(f, readable) ==
    IF ~readable \/ f.fmt = "corrupt" THEN Raised
    ELSE IF f.fmt = "wrapped" THEN [kind |-> "wrapper", ts |-> f.ts, data |-> f.data]
    ELSE Caps(f.data)

(***************************************************************************)
(* The cache check at the head of get_coingecko_market_caps.  The result   *)
(* is what the call returns at once, or NoResult when it goes on to        *)
(* refetch.                                                                *)
(***************************************************************************)
LegacyLookup(f, t, ttl, readable) ==
    IF f.exists /\ t - f.mtime < ttl
    THEN LET r == JsonLoad(f, readable) IN IF r.kind = "raised" THEN NoResult ELSE r
    ELSE NoResult

TsLookupInclusive(f, t, ttl, readable) ==
    IF ~f.exists THEN NoResult
    ELSE LET cache == JsonLoad(f, readable) IN
         IF cache.kind = "raised" THEN NoResult
         ELSE LET stamp == IF cache.kind = "wrapper" THEN cache.ts ELSE 0
                  data == IF cache.kind = "wrapper" THEN cache.data ELSE EmptyMap
              IN IF t - stamp <= ttl THEN Caps(data) ELSE NoResult

\* cache.get("timestamp", 0) and cache.get("data", {}) of a bare mapping are
\* the defaults: its keys are tickers.
TsLookup(f, t, ttl, readable) ==
    IF ~f.exists THEN NoResult
    ELSE LET cache == JsonLoad(f, readable) IN
         IF cache.kind = "raised" THEN NoResult
         ELSE LET stamp == IF cache.kind = "wrapper" THEN cache.ts ELSE 0
                  data == IF cache.kind = "wrapper" THEN cache.data ELSE EmptyMap
              IN IF t - stamp < ttl THEN Caps(data) ELSE NoResult

CacheLookup(v, f, t, ttl, readable) ==
    IF v = "legacy" THEN LegacyLookup(f, t, ttl, readable) ELSE TsLookup(f, t, ttl, readable)

(***************************************************************************)
(* One page of /coins/markets.  A coin record may lack either field.       *)
(***************************************************************************)
Coin(s, c) == [hasSymbol |-> TRUE, symbol |-> s, hasCap |-> TRUE, market_cap |-> c]

Coins ==
    { Coin("a", 100), Coin("a", 200), Coin("b", 100), Coin("a", 0), Coin("a", None),
      [hasSymbol |-> FALSE, symbol |-> "", hasCap |-> TRUE, market_cap |-> 100],
      [hasSymbol |-> TRUE, symbol |-> "b", hasCap |-> FALSE, market_cap |-> None] }

\* The page bodies the upstream may answer with: no record, one record, two
\* records (in either order, repeats included).
PageBodies ==
    { <<>> } \cup { << c >> : c \in Coins } \cup { << c, d >> : c \in Coins, d \in Coins }

\* ok = FALSE: requests.get or raise_for_status raised
PageOutcomes ==
    { [ok |-> FALSE, items |-> <<>>] } \cup { [ok |-> TRUE, items |-> q] : q \in PageBodies }

\* binance.py: item["symbol"], item["market_cap"]; a missing key raises
\* KeyError, which ends the page with the entries merged so far.
RECURSIVE LegacyMerge(_, _)
LegacyMerge(mc, items) ==
    IF items = <<>> THEN mc
    ELSE LET item == Head(items) IN
         IF ~item.hasSymbol \/ ~item.hasCap THEN mc
         ELSE LegacyMerge(Put(mc, Upper(item.symbol), item.market_cap), Tail(items))

\* self_time.py: coin.get("symbol", "").upper(), coin.get("market_cap"),
\* stored only `if symbol and market_cap`.
RECURSIVE TsMerge(_, _)
TsMerge(mc, items) ==
    IF items = <<>> THEN mc
    ELSE LET coin == Head(items)
             symbol == IF coin.hasSymbol THEN Upper(coin.symbol) ELSE ""
             market_cap == IF coin.hasCap THEN coin.market_cap ELSE None
         IN IF symbol # "" /\ Truthy(market_cap)
            THEN TsMerge(Put(mc, symbol, market_cap), Tail(items))
            ELSE TsMerge(mc, Tail(items))

\* The body of the page loop: the merged mapping, whether the loop breaks,
\* and whether an exception leaves the function.
LegacyFetchStep(mc, p) ==
    [caps |-> IF p.ok THEN LegacyMerge(mc, p.items) ELSE mc, stop |-> FALSE, raised |-> FALSE]

TsFetchStepUncaught(mc, p) ==
    IF ~p.ok THEN [caps |-> mc, stop |-> TRUE, raised |-> TRUE]
    ELSE IF p.items = <<>> THEN [caps |-> mc, stop |-> TRUE, raised |-> FALSE]
    ELSE [caps |-> TsMerge(mc, p.items), stop |-> FALSE, raised |-> FALSE]

TsFetchStep(mc, p) ==
    IF ~p.ok THEN [caps |-> mc, stop |-> TRUE, raised |-> FALSE]
    ELSE IF p.items = <<>> THEN [caps |-> mc, stop |-> TRUE, raised |-> FALSE]
    ELSE [caps |-> TsMerge(mc, p.items), stop |-> FALSE, raised |-> FALSE]

FetchStep(v, mc, p) == IF v = "legacy" THEN LegacyFetchStep(mc, p) ELSE TsFetchStep(mc, p)

(***************************************************************************)
(* After the page loop: persist and return.                                *)
(***************************************************************************)
\* binance.py writes `if market_caps`; self_time.py writes always.
LegacyStoreFile(f, mc, t, writable) ==
    IF mc # EmptyMap /\ writable THEN BareFile(mc, t) ELSE f

LegacyStoreResult(f, mc, readable) ==
    IF mc # EmptyMap THEN Caps(mc)
    ELSE IF f.exists
         THEN LET r == JsonLoad(f, readable) IN IF r.kind = "raised" THEN Caps(EmptyMap) ELSE r
         ELSE Caps(EmptyMap)

TsStoreFileNoStamp(f, mc, stamp, t, writable) ==
    IF writable THEN BareFile(mc, t) ELSE f

TsStoreFile(f, mc, stamp, t, writable) ==
    IF writable THEN WrappedFile(mc, stamp, t) ELSE f

TsStoreResult(f, mc, readable) == Caps(mc)

StoreFile(v, f, mc, stamp, t, writable) ==
    IF v = "legacy" THEN LegacyStoreFile(f, mc, t, writable)
    ELSE TsStoreFile(f, mc, stamp, t, writable)

StoreResult(v, f, mc, readable) ==
    IF v = "legacy" THEN LegacyStoreResult(f, mc, readable) ELSE TsStoreResult(f, mc, readable)

(***************************************************************************)
(* The screener: get_high_volume_to_marketcap_contracts.                   *)
(*   "live"       binance.py: one 24h ticker per contract, no workers      *)
(*   "historical" self_time.py: per-symbol tasks scanning daily candles    *)
(*   "ceiling"    self_time_50bilile.py: the same with max_market_cap      *)
(***************************************************************************)
ScreenVariants == {"live", "historical", "ceiling"}

exclude_symbols == {"BTC", "ETH"}

EndsWithUsdt(symbol) == symbol \in {"AUSDT", "BUSDT", "CUSDT", "BTCUSDT", "ETHUSDT"}

\* symbol.replace("USDT", "").upper()
Base(symbol) ==
    Upper(CASE symbol = "AUSDT" -> "A"
            [] symbol = "BUSDT" -> "B"
            [] symbol = "CUSDT" -> "C"
            [] symbol = "BTCUSDT" -> "BTC"
            [] symbol = "ETHUSDT" -> "ETH"
            [] OTHER -> symbol)

\* f"{base}/USDT:USDT"
Tag(base) == << base, "/USDT:USDT" >>

\* dict.get(key): None when the key is absent
MapGet(m, k) == IF k \in DOMAIN m THEN m[k] ELSE None

\* volume / market_cap, kept exact as a fraction; the denominator is never 0
\* where the screener uses it (its filter drops a market cap of 0)
Ratio(volume, market_cap) == [num |-> volume, den |-> market_cap]

RatioGT(a, b) == a.num * b.den > b.num * a.den

RatioGE(a, b) == a.num * b.den >= b.num * a.den

\* the threshold argument: 0.5
threshold == [num |-> 1, den |-> 2]

\* `if base in exclude_symbols: continue` and
\* `if not market_cap or market_cap == 0: continue`, and in the ceiling
\* variant `if market_cap > max_market_cap: continue`
SkipsNothing(base) == TRUE

NotExcluded(base) == base \notin exclude_symbols

HasMarketCapAny(caps, base) == TRUE

HasMarketCap(caps, base) == Truthy(MapGet(caps, base))

EligibleNoCeiling(sv, caps, base, maxcap) ==
    /\ NotExcluded(base)
    /\ HasMarketCap(caps, base)

Eligible(sv, caps, base, maxcap) ==
    /\ NotExcluded(base)
    /\ HasMarketCap(caps, base)
    /\ sv = "ceiling" => ~(MapGet(caps, base) > maxcap)

\* the comparison that lets a day (or the 24h ticker) qualify
LiveQualifies(ratio) == RatioGE(ratio, threshold)

DayQualifies(ratio) == RatioGT(ratio, threshold)

\* the dict a qualifying symbol yields
ResultDict(symbol, base, volume, market_cap, price, change) ==
    [symbol |-> symbol, volume_usdt |-> volume, market_cap |-> market_cap,
     ratio |-> Ratio(volume, market_cap), price |-> price, change |-> change,
     tag |-> Tag(base)]

\* sorted(results, key=lambda x: x["ratio"], reverse=True): stable, so equal
\* ratios keep the order they had
RECURSIVE InsertDesc(_, _)
InsertDesc(sorted, x) ==
    IF sorted = <<>> THEN << x >>
    ELSE IF RatioGT(x.ratio, Head(sorted).ratio) THEN << x >> \o sorted
    ELSE << Head(sorted) >> \o InsertDesc(Tail(sorted), x)

RECURSIVE SortDescFrom(_, _)
SortDescFrom(acc, rest) ==
    IF rest = <<>> THEN acc ELSE SortDescFrom(InsertDesc(acc, Head(rest)), Tail(rest))

SortUnsorted(results) == results

SortDesc(results) == SortDescFrom(<<>>, results)

\* results[:limit], limit >= 0
Truncate(results, limit) == SubSeq(results, 1, IF limit < Len(results) THEN limit ELSE Len(results))

\* binance.py: the loop over the 24h tickers
RECURSIVE LiveScan(_, _)
LiveScan(contracts, caps) ==
    IF contracts = <<>> THEN <<>>
    ELSE LET c == Head(contracts)
             base == Base(c.symbol)
             market_cap == MapGet(caps, base)
             rest == LiveScan(Tail(contracts), caps)
         IN IF ~EndsWithUsdt(c.symbol) \/ ~Eligible("live", caps, base, 0) THEN rest
            ELSE IF LiveQualifies(Ratio(c.quoteVolume, market_cap))
                 THEN << ResultDict(c.symbol, base, c.quoteVolume, market_cap,
                                    c.lastPrice, c.priceChangePercent) >> \o rest
                 ELSE rest

\* `for i in range(days)`: whether the scan goes on after i days
LoopState(i, days) == IF i < days THEN "running" ELSE "done"

NoRes == [symbol |-> "", volume_usdt |-> 0, market_cap |-> 0, ratio |-> Ratio(0, 1),
          price |-> 0, change |-> 0, tag |-> Tag("")]

\* executor.submit(_check_symbol_volume_ratio, symbol, base, market_cap, ...)
Task(symbol, base, market_cap, days) ==
    [symbol |-> symbol, base |-> base, market_cap |-> market_cap, i |-> 0,
     volume_usdt |-> 0, state |-> LoopState(0, days), found |-> FALSE, res |-> NoRes,
     collected |-> FALSE]

\* self_time.py: the submit loop over the symbols
RECURSIVE SubmitAll(_, _, _, _, _)
SubmitAll(sv, symbols, caps, days, maxcap) ==
    IF symbols = <<>> THEN <<>>
    ELSE LET symbol == Head(symbols)
             base == Base(symbol)
             rest == SubmitAll(sv, Tail(symbols), caps, days, maxcap)
         IN IF Eligible(sv, caps, base, maxcap)
            THEN << Task(symbol, base, MapGet(caps, base), days) >> \o rest
            ELSE rest

\* one iteration of the day loop of _check_symbol_volume_ratio on task t:
\* v is the day's volume (FAIL when get_daily_volume raised), tk the live
\* ticker's outcome; t.i counts the days examined, t.volume_usdt is the
\* worker's local of that name
FAIL == 0 - 1

CheckDayStepTickerFatal(sv, t, days, v, tk) ==
    LET volume_usdt == IF v = FAIL THEN 0 ELSE v
        seen == [t EXCEPT !.i = t.i + 1, !.volume_usdt = volume_usdt]
    IN
    IF t.market_cap = 0
    THEN IF sv = "ceiling"
         THEN [seen EXCEPT !.state = LoopState(t.i + 1, days)]
         ELSE [seen EXCEPT !.state = "raised"]
    ELSE IF DayQualifies(Ratio(volume_usdt, t.market_cap))
         THEN IF tk.ok
              THEN [seen EXCEPT !.state = "done", !.found = TRUE,
                                !.res = ResultDict(t.symbol, t.base, volume_usdt,
                                                   t.market_cap, tk.price, tk.change)]
              ELSE [seen EXCEPT !.state = "done"]
         ELSE [seen EXCEPT !.state = LoopState(t.i + 1, days)]

CheckDayStepUncaught(sv, t, days, v, tk) ==
    LET volume_usdt == IF v = FAIL THEN 0 ELSE v
        seen == [t EXCEPT !.i = t.i + 1, !.volume_usdt = volume_usdt]
    IN
    IF v = FAIL \/ (t.market_cap = 0 /\ sv # "ceiling")
    THEN [seen EXCEPT !.state = "raised"]
    ELSE IF t.market_cap = 0
         THEN [seen EXCEPT !.state = LoopState(t.i + 1, days)]
    ELSE IF DayQualifies(Ratio(volume_usdt, t.market_cap))
         THEN [seen EXCEPT !.state = "done", !.found = TRUE,
                           !.res = ResultDict(t.symbol, t.base, volume_usdt, t.market_cap,
                                              IF tk.ok THEN tk.price ELSE 0,
                                              IF tk.ok THEN tk.change ELSE 0)]
         ELSE [seen EXCEPT !.state = LoopState(t.i + 1, days)]

CheckDayStepKeepsScanning(sv, t, days, v, tk) ==
    LET volume_usdt == IF v = FAIL THEN 0 ELSE v
        seen == [t EXCEPT !.i = t.i + 1, !.volume_usdt = volume_usdt,
                          !.state = LoopState(t.i + 1, days)]
    IN
    IF t.market_cap # 0 /\ DayQualifies(Ratio(volume_usdt, t.market_cap))
    THEN [seen EXCEPT !.found = TRUE,
                      !.res = ResultDict(t.symbol, t.base, volume_usdt, t.market_cap,
                                         IF tk.ok THEN tk.price ELSE 0,
                                         IF tk.ok THEN tk.change ELSE 0)]
    ELSE seen

CheckDayStep(sv, t, days, v, tk) ==
    LET volume_usdt == IF v = FAIL THEN 0 ELSE v
        seen == [t EXCEPT !.i = t.i + 1, !.volume_usdt = volume_usdt]
    IN
    IF t.market_cap = 0
    THEN IF sv = "ceiling"
         THEN [seen EXCEPT !.state = LoopState(t.i + 1, days)]
         ELSE [seen EXCEPT !.state = "raised"]
    ELSE IF DayQualifies(Ratio(volume_usdt, t.market_cap))
         THEN [seen EXCEPT !.state = "done", !.found = TRUE,
                           !.res = ResultDict(t.symbol, t.base, volume_usdt, t.market_cap,
                                              IF tk.ok THEN tk.price ELSE 0,
                                              IF tk.ok THEN tk.change ELSE 0)]
         ELSE [seen EXCEPT !.state = LoopState(t.i + 1, days)]

(***************************************************************************)
(* State.  A behaviour is a sequence of get_coingecko_market_caps calls on *)
(* one cache file; between two calls the variables of the call hold what   *)
(* the finished call left.                                                 *)
(***************************************************************************)
VARIABLES
    clock,        \* time.time(), in ticks
    file,         \* the cache file at cache_path
    pc,           \* "idle" (no call yet), "fetch" (in the page loop), "done" (returned)
    variant,      \* which get_coingecko_market_caps is running
    readable,     \* whether open(cache_path, "r") succeeds during the call
    writable,     \* whether open(cache_path, "w") succeeded in the call
    now,          \* the clock at the cache check
    fileAtCall,   \* the cache file when the call started
    hit,          \* the call returned from the cache check
    page,         \* loop variable of the page loop
    market_caps,  \* the mapping merged so far
    requests,     \* HTTP requests issued by the call
    fails,        \* how many of them failed
    result        \* what the call returned

cacheVars == << clock, file, pc, variant, readable, writable, now, fileAtCall, hit,
                page, market_caps, requests, fails, result >>

\* One call of get_high_volume_to_marketcap_contracts.
VARIABLES
    sv,              \* which screener is running
    spc,             \* "off", "start", "caps", "catalog", "ready", "run", "done", "raised"
    days,            \* the lookback argument
    limit,           \* the limit argument
    max_market_cap,  \* the ceiling argument (ceiling variant)
    cg_market_caps,  \* the snapshot get_coingecko_market_caps returned
    contracts,       \* live: the 24h tickers get_all_usdt_contracts returned
    symbols,         \* historical: what get_usdt_perpetual_symbols returned
    futures,         \* the tasks submitted to the pool, in submission order
    results,         \* the results collected so far, in completion order
    output           \* the list the call returns

screenVars == << sv, spc, days, limit, max_market_cap, cg_market_caps, contracts, symbols,
                 futures, results, output >>

\* The candle window of get_daily_volume, day by day of one worker's scan.
VARIABLES
    wpc,         \* "off", or "scan" while a worker scans its days
    tz,          \* the time zone of the running process
    date_str,    \* the date_str argument of the screener, "%Y%m%d"
    offset,      \* the loop variable i of the worker's day loop
    check_date,  \* the date string handed to get_daily_volume
    start_ts,    \* startTime of the klines request, an instant (see EpochMs)
    end_ts       \* endTime of the klines request, an instant

windowVars == << wpc, tz, date_str, offset, check_date, start_ts, end_ts >>

vars == << cacheVars, screenVars, windowVars >>

\* An instant in epoch milliseconds, held as the day since 1970-01-01 and the
\* milliseconds into that day (0 <= ms < 86,400,000): the number
\* day * 86,400,000 + ms itself is beyond the model checker's integers.
EpochMs(day, ms) ==
    [day |-> day + (ms \div 86400000), ms |-> ms % 86400000]

\* b - a in milliseconds
MsBetween(a, b) == (b.day - a.day) * 86400000 + (b.ms - a.ms)

\* no candle window in the behaviours of Spec, SpecScreen and SpecWorker,
\* whose lookups are known by their outcome only
WindowOff ==
    /\ wpc = "off"
    /\ tz = "UTC"
    /\ date_str = ""
    /\ offset = 0
    /\ check_date = ""
    /\ start_ts = EpochMs(0, 0)
    /\ end_ts = EpochMs(0, 0)

Variants == {"legacy", "timestamp"}

SomeCaps == [A |-> 100]

\* The epoch is far beyond any ttl: the clock starts past CacheTtl, so that a
\* missing timestamp (0) is always stale.
StartTime == CacheTtl + 2

\* Cache files left by earlier runs: none, fresh, exactly ttl old, corrupt.
InitFiles ==
    { NoFile, CorruptFile(StartTime - 1) } \cup
    { BareFile(SomeCaps, StartTime - age) : age \in {1, CacheTtl} } \cup
    { WrappedFile(SomeCaps, StartTime - age, StartTime - age) : age \in {1, CacheTtl} }

\* no screener call in the behaviours of Spec
ScreenOff ==
    /\ sv = "live"
    /\ spc = "off"
    /\ days = 0
    /\ limit = 0
    /\ max_market_cap = 0
    /\ cg_market_caps = EmptyMap
    /\ contracts = <<>>
    /\ symbols = <<>>
    /\ futures = <<>>
    /\ results = <<>>
    /\ output = <<>>

Init ==
    /\ ScreenOff
    /\ WindowOff
    /\ clock = StartTime
    /\ file \in InitFiles
    /\ pc = "idle"
    /\ variant = "legacy"
    /\ readable = TRUE
    /\ writable = TRUE
    /\ now = 0
    /\ fileAtCall = NoFile
    /\ hit = FALSE
    /\ page = 1
    /\ market_caps = EmptyMap
    /\ requests = 0
    /\ fails = 0
    /\ result = NoResult

(***************************************************************************)
(* Actions.                                                                *)
(***************************************************************************)
\* time passes between calls and while a call waits on the network
Tick ==
    /\ clock < StartTime + MaxTicks
    /\ clock' = clock + 1
    /\ UNCHANGED << file, pc, variant, readable, writable, now, fileAtCall, hit,
                    page, market_caps, requests, fails, result >>
    /\ UNCHANGED screenVars
    /\ UNCHANGED windowVars

\* get_coingecko_market_caps is entered: the cache check
Call(v, r) ==
    /\ pc \in {"idle", "done"}
    /\ variant' = v
    /\ readable' = r
    /\ writable' = TRUE
    /\ now' = clock
    /\ fileAtCall' = file
    /\ page' = 1
    /\ market_caps' = EmptyMap
    /\ requests' = 0
    /\ fails' = 0
    /\ LET found == CacheLookup(v, file, clock, CacheTtl, r) IN
       /\ hit' = (found.kind \in {"caps", "wrapper"})
       /\ result' = found
       /\ pc' = IF found.kind = "none" THEN "fetch" ELSE "done"
    /\ UNCHANGED << clock, file >>
    /\ UNCHANGED screenVars
    /\ UNCHANGED windowVars

\* one iteration of `for page in range(1, pages + 1)`
FetchPage(p) ==
    /\ pc = "fetch"
    /\ page <= Pages
    /\ LET step == FetchStep(variant, market_caps, p) IN
       /\ market_caps' = step.caps
       /\ page' = IF step.stop THEN Pages + 1 ELSE page + 1
       /\ result' = IF step.raised THEN Raised ELSE result
       /\ pc' = IF step.raised THEN "done" ELSE "fetch"
    /\ requests' = requests + 1
    /\ fails' = IF p.ok THEN fails ELSE fails + 1
    /\ UNCHANGED << clock, file, variant, readable, writable, now, fileAtCall, hit >>
    /\ UNCHANGED screenVars
    /\ UNCHANGED windowVars

\* the page loop is over: write the cache, or fall back to it, and return
Store(w) ==
    /\ pc = "fetch"
    /\ page > Pages
    /\ writable' = w
    /\ file' = StoreFile(variant, file, market_caps, now, clock, w)
    /\ result' = StoreResult(variant, file, market_caps, readable)
    /\ pc' = "done"
    /\ UNCHANGED << clock, variant, readable, now, fileAtCall, hit,
                    page, market_caps, requests, fails >>
    /\ UNCHANGED screenVars
    /\ UNCHANGED windowVars

Next ==
    \/ Tick
    \/ \E v \in Variants, r \in BOOLEAN : Call(v, r)
    \/ \E p \in PageOutcomes : FetchPage(p)
    \/ \E w \in BOOLEAN : Store(w)

Spec == Init /\ [][Next]_vars

(***************************************************************************)
(* SpecScreen: one call of get_high_volume_to_marketcap_contracts, with    *)
(* the snapshot, the catalog, the volumes and the tickers chosen by the    *)
(* environment and the pool's workers interleaved freely.  The pool is     *)
(* larger (10 or 20 workers) than the number of tasks of the model, so     *)
(* every submitted task runs at once.                                      *)
(***************************************************************************)
\* largest lookback (`days`) argument
MaxDays == 2
\* largest `limit` argument
MaxLimit == 2

\* what get_coingecko_market_caps may hand the screener
Snapshots ==
    { [A |-> 100, B |-> 200, C |-> 0],
      [BTC |-> 100, ETH |-> 200, A |-> 100, C |-> 100],
      EmptyMap }

\* the exchange's symbol metadata
Listing(symbol, type) == [symbol |-> symbol, contractType |-> type]

Catalogs ==
    { << Listing("AUSDT", "PERPETUAL"), Listing("BUSDT", "PERPETUAL"),
         Listing("CUSDT", "PERPETUAL") >>,
      << Listing("BTCUSDT", "PERPETUAL"), Listing("CUSDT", "PERPETUAL"),
         Listing("ABUSD", "PERPETUAL"), Listing("ETHUSDT", "PERPETUAL"),
         Listing("AUSDT", "PERPETUAL"), Listing("BUSDT", "CURRENT_QUARTER") >> }

\* a day's traded volume in USDT (0: no candle, or nothing traded)
Volumes == {0, 60, 90, 100}

\* what the klines request of get_daily_volume may meet: a transport error,
\* a non-2xx status, an empty list, a candle whose fields float() rejects, or
\* a candle with a close price and a volume
Candle(close, volume) == [kind |-> "candle", close |-> close, volume |-> volume]

Responses ==
    { [kind |-> x, close |-> 0, volume |-> 0] : x \in {"transport", "status", "empty", "malformed"} }
        \cup { Candle(2, 30), Candle(3, 30), Candle(2, 50) }

\* get_daily_volume: raises (FAIL) on a transport error, a non-2xx status or
\* a malformed candle, returns 0.0 when there is no candle, else
\* close_price * volume
get_daily_volume(resp) ==
    IF resp.kind \in {"transport", "status", "malformed"} THEN FAIL
    ELSE IF resp.kind = "empty" THEN 0
    ELSE resp.close * resp.volume

\* the quoteVolume of a 24h ticker
LiveVolumes == {60, 90, 100}

\* the live ticker of a symbol, or the failure to get it
Tickers == { [ok |-> TRUE, price |-> 7, change |-> 3], [ok |-> FALSE, price |-> 0, change |-> 0] }

\* get_usdt_perpetual_symbols: the filter over data['symbols']
RECURSIVE PerpetualUsdt(_)
PerpetualUsdt(listings) ==
    IF listings = <<>> THEN <<>>
    ELSE LET s == Head(listings) IN
         IF EndsWithUsdt(s.symbol) /\ s.contractType = "PERPETUAL"
         THEN << s.symbol >> \o PerpetualUsdt(Tail(listings))
         ELSE PerpetualUsdt(Tail(listings))

\* get_all_usdt_contracts: the filter over the 24h tickers; vols gives each
\* ticker's quoteVolume
RECURSIVE UsdtContracts(_, _)
UsdtContracts(listings, vols) ==
    IF listings = <<>> THEN <<>>
    ELSE LET s == Head(listings) IN
         IF EndsWithUsdt(s.symbol)
         THEN << [symbol |-> s.symbol, quoteVolume |-> Head(vols), lastPrice |-> 7,
                  priceChangePercent |-> 3] >> \o UsdtContracts(Tail(listings), Tail(vols))
         ELSE UsdtContracts(Tail(listings), Tail(vols))

CacheOff ==
    /\ clock = StartTime
    /\ file = NoFile
    /\ pc = "idle"
    /\ variant = "legacy"
    /\ readable = TRUE
    /\ writable = TRUE
    /\ now = 0
    /\ fileAtCall = NoFile
    /\ hit = FALSE
    /\ page = 1
    /\ market_caps = EmptyMap
    /\ requests = 0
    /\ fails = 0
    /\ result = NoResult

InitScreen ==
    /\ CacheOff
    /\ WindowOff
    /\ sv \in ScreenVariants
    /\ spc = "start"
    /\ days \in 0..MaxDays
    /\ sv = "live" => days = 1
    /\ limit \in 0..MaxLimit
    /\ max_market_cap \in {50, 100, 200}
    /\ sv # "ceiling" => max_market_cap = 200
    /\ cg_market_caps = EmptyMap
    /\ contracts = <<>>
    /\ symbols = <<>>
    /\ futures = <<>>
    /\ results = <<>>
    /\ output = <<>>

\* cg_market_caps = BinanceFuturesUtil.get_coingecko_market_caps()
GetMarketCaps(snap) ==
    /\ \/ sv = "live" /\ spc = "catalog" /\ spc' = "ready"
       \/ sv # "live" /\ spc = "start" /\ spc' = "caps"
    /\ cg_market_caps' = snap
    /\ UNCHANGED << sv, days, limit, max_market_cap, contracts, symbols, futures, results,
                    output >>
    /\ UNCHANGED cacheVars
    /\ UNCHANGED windowVars

\* live: contracts = BinanceFuturesUtil.get_all_usdt_contracts()
GetAllUsdtContracts(ok, listings, vols) ==
    /\ sv = "live" /\ spc = "start"
    /\ IF ok
       THEN spc' = "catalog" /\ contracts' = UsdtContracts(listings, vols)
       ELSE spc' = "raised" /\ contracts' = contracts
    /\ UNCHANGED << sv, days, limit, max_market_cap, cg_market_caps, symbols, futures,
                    results, output >>
    /\ UNCHANGED cacheVars
    /\ UNCHANGED windowVars

\* historical: symbols = BinanceFuturesUtil.get_usdt_perpetual_symbols();
\* requests.get or raise_for_status raises when ok is FALSE, and nothing
\* catches it
GetUsdtPerpetualSymbolsSwallowed(ok, listings) ==
    /\ sv # "live" /\ spc = "caps"
    /\ spc' = "ready"
    /\ symbols' = IF ok THEN PerpetualUsdt(listings) ELSE <<>>
    /\ UNCHANGED << sv, days, limit, max_market_cap, cg_market_caps, contracts, futures,
                    results, output >>
    /\ UNCHANGED cacheVars
    /\ UNCHANGED windowVars

GetUsdtPerpetualSymbols(ok, listings) ==
    /\ sv # "live" /\ spc = "caps"
    /\ IF ok
       THEN spc' = "ready" /\ symbols' = PerpetualUsdt(listings)
       ELSE spc' = "raised" /\ symbols' = symbols
    /\ UNCHANGED << sv, days, limit, max_market_cap, cg_market_caps, contracts, futures,
                    results, output >>
    /\ UNCHANGED cacheVars
    /\ UNCHANGED windowVars

\* live: the loop over the contracts, the sort and the truncation
LiveScreen ==
    /\ sv = "live" /\ spc = "ready"
    /\ results' = LiveScan(contracts, cg_market_caps)
    /\ output' = Truncate(SortDesc(results'), limit)
    /\ spc' = "done"
    /\ UNCHANGED << sv, days, limit, max_market_cap, cg_market_caps, contracts, symbols,
                    futures >>
    /\ UNCHANGED cacheVars
    /\ UNCHANGED windowVars

\* historical: the submit loop
Submit ==
    /\ sv # "live" /\ spc = "ready"
    /\ futures' = SubmitAll(sv, symbols, cg_market_caps, days, max_market_cap)
    /\ spc' = "run"
    /\ UNCHANGED << sv, days, limit, max_market_cap, cg_market_caps, contracts, symbols,
                    results, output >>
    /\ UNCHANGED cacheVars
    /\ UNCHANGED windowVars

\* a worker examines the next day of task k; it touches its own task only
CheckDayRefetches(k, v, tk) ==
    /\ spc = "run"
    /\ k \in 1..Len(futures)
    /\ futures[k].state = "running"
    /\ futures' = [futures EXCEPT ![k] = CheckDayStep(sv, futures[k], days, v, tk)]
    /\ file' = WrappedFile(EmptyMap, clock, clock)
    /\ UNCHANGED << sv, spc, days, limit, max_market_cap, cg_market_caps, contracts,
                    symbols, results, output >>
    /\ UNCHANGED << clock, pc, variant, readable, writable, now, fileAtCall, hit,
                    page, market_caps, requests, fails, result >>
    /\ UNCHANGED windowVars

CheckDay(k, v, tk) ==
    /\ spc = "run"
    /\ k \in 1..Len(futures)
    /\ futures[k].state = "running"
    /\ futures' = [futures EXCEPT ![k] = CheckDayStep(sv, futures[k], days, v, tk)]
    /\ UNCHANGED << sv, spc, days, limit, max_market_cap, cg_market_caps, contracts,
                    symbols, results, output >>
    /\ UNCHANGED cacheVars
    /\ UNCHANGED windowVars

\* as_completed hands the main thread a finished task: future.result()
Collect(k) ==
    /\ spc = "run"
    /\ k \in 1..Len(futures)
    /\ futures[k].state \in {"done", "raised"}
    /\ ~futures[k].collected
    /\ futures' = [futures EXCEPT ![k].collected = TRUE]
    /\ IF futures[k].state = "raised"
       THEN spc' = "raised" /\ results' = results
       ELSE /\ spc' = spc
            /\ results' = IF futures[k].found THEN Append(results, futures[k].res)
                          ELSE results
    /\ UNCHANGED << sv, days, limit, max_market_cap, cg_market_caps, contracts, symbols,
                    output >>
    /\ UNCHANGED cacheVars
    /\ UNCHANGED windowVars

\* results.sort(...); return results[:limit]
Finish ==
    /\ spc = "run"
    /\ \A k \in 1..Len(futures) : futures[k].collected
    /\ output' = Truncate(SortDesc(results), limit)
    /\ spc' = "done"
    /\ UNCHANGED << sv, days, limit, max_market_cap, cg_market_caps, contracts, symbols,
                    futures, results >>
    /\ UNCHANGED cacheVars
    /\ UNCHANGED windowVars

NextScreen ==
    \/ \E snap \in Snapshots : GetMarketCaps(snap)
    \/ \E listings \in Catalogs :
           \E vols \in [1..Len(listings) -> LiveVolumes] :
               GetAllUsdtContracts(TRUE, listings, vols)
    \/ GetAllUsdtContracts(FALSE, <<>>, <<>>)
    \/ \E ok \in BOOLEAN, listings \in Catalogs : GetUsdtPerpetualSymbols(ok, listings)
    \/ LiveScreen
    \/ Submit
    \/ \E k \in 1..Len(futures), resp \in Responses, tk \in Tickers :
           CheckDay(k, get_daily_volume(resp), tk)
    \/ \E k \in 1..Len(futures) : Collect(k)
    \/ Finish

SpecScreen == InitScreen /\ [][NextScreen]_vars

(***************************************************************************)
(* SpecWorker: _check_symbol_volume_ratio called directly, without the     *)
(* screener's eligibility filter in front of it: any market cap, 0         *)
(* included.  The call is the only task; Collect is its caller getting the *)
(* returned value or the exception.                                        *)
(***************************************************************************)
\* the market_cap argument of a direct call
WorkerCaps == {0, 100, 200}

WorkerSymbols == {"AUSDT", "BUSDT"}

InitWorker ==
    /\ CacheOff
    /\ WindowOff
    /\ sv \in {"historical", "ceiling"}
    /\ spc = "run"
    /\ days \in 0..MaxDays
    /\ limit = 0
    /\ max_market_cap = 200
    /\ cg_market_caps = EmptyMap
    /\ contracts = <<>>
    /\ symbols = <<>>
    /\ \E symbol \in WorkerSymbols, market_cap \in WorkerCaps :
           futures = << Task(symbol, Base(symbol), market_cap, days) >>
    /\ results = <<>>
    /\ output = <<>>

NextWorker ==
    \/ \E resp \in Responses, tk \in Tickers : CheckDay(1, get_daily_volume(resp), tk)
    \/ Collect(1)

SpecWorker == InitWorker /\ [][NextWorker]_vars

(***************************************************************************)
(* SpecRun: one call of the historical screener with its call of           *)
(* get_coingecko_market_caps spelled out: the cache check, the page loop   *)
(* and the store run on the cache file before the catalog is fetched and   *)
(* the tasks are submitted.                                                *)
(***************************************************************************)
\* the page outcomes of a run: a failure, an empty page, one and two coins
RunPages ==
    { [ok |-> FALSE, items |-> <<>>],
      [ok |-> TRUE, items |-> <<>>],
      [ok |-> TRUE, items |-> << Coin("a", 100) >>],
      [ok |-> TRUE, items |-> << Coin("a", 200), Coin("b", 100) >>] }

\* the object get_coingecko_market_caps returned, as the screener's
\* cg_market_caps: the mapping, or the wrapper with its two keys
AsSnapshot(r) ==
    IF r.kind = "wrapper" THEN [timestamp |-> r.ts, data |-> r.data] ELSE r.data

InitRun ==
    /\ WindowOff
    /\ clock = StartTime
    /\ file \in InitFiles
    /\ pc = "idle"
    /\ variant = "timestamp"
    /\ readable = TRUE
    /\ writable = TRUE
    /\ now = 0
    /\ fileAtCall = NoFile
    /\ hit = FALSE
    /\ page = 1
    /\ market_caps = EmptyMap
    /\ requests = 0
    /\ fails = 0
    /\ result = NoResult
    /\ sv \in {"historical", "ceiling"}
    /\ spc = "start"
    /\ days = 1
    /\ limit = MaxLimit
    /\ max_market_cap = 100
    /\ cg_market_caps = EmptyMap
    /\ contracts = <<>>
    /\ symbols = <<>>
    /\ futures = <<>>
    /\ results = <<>>
    /\ output = <<>>

\* line 160: get_coingecko_market_caps() is entered ...
CallMarketCaps(r) ==
    /\ spc = "start"
    /\ pc = "idle"
    /\ Call("timestamp", r)

\* ... and what it returned is bound to cg_market_caps
ReturnMarketCaps ==
    /\ pc = "done"
    /\ GetMarketCaps(AsSnapshot(result))

NextRun ==
    \/ \E r \in BOOLEAN : CallMarketCaps(r)
    \/ \E p \in RunPages : FetchPage(p)
    \/ \E w \in BOOLEAN : Store(w)
    \/ ReturnMarketCaps
    \/ \E ok \in BOOLEAN, listings \in Catalogs : GetUsdtPerpetualSymbols(ok, listings)
    \/ Submit
    \/ \E k \in 1..Len(futures), resp \in Responses, tk \in Tickers :
           CheckDay(k, get_daily_volume(resp), tk)
    \/ \E k \in 1..Len(futures) : Collect(k)
    \/ Finish

SpecRun == InitRun /\ [][NextRun]_vars

(***************************************************************************)
(* SpecWindow: the dates a worker scans and the candle window              *)
(* get_daily_volume requests for each, in a process running in time zone   *)
(* tz.  Dates are days since 1970-01-01; a naive datetime's timestamp() is *)
(* taken in the local time zone.                                           *)
(***************************************************************************)
\* the calendar of the model: date strings and their day numbers
Calendar ==
    { << "20250307", 20154 >>, << "20250308", 20155 >>, << "20250309", 20156 >>,
      << "20250310", 20157 >>, << "20250311", 20158 >>, << "20250601", 20240 >>,
      << "20250602", 20241 >>, << "20250603", 20242 >>, << "20250604", 20243 >> }

\* datetime.strptime(s, "%Y%m%d"): the (naive) midnight of that day
Strptime(s) == (CHOOSE e \in Calendar : e[1] = s)[2]

\* datetime.strftime("%Y%m%d")
Strftime(day) == (CHOOSE e \in Calendar : e[2] = day)[1]

\* the date_str arguments of the model
DateStrs == {"20250309", "20250310", "20250311", "20250603", "20250604"}

Zones == {"UTC", "Asia/Shanghai", "America/New_York", "Europe/London"}

\* hours the zone's local time is ahead of UTC at the local midnight that
\* starts the day (summer time began on 2025-03-09 in New York and on
\* 2025-03-30 in London, both after that day's midnight)
UtcOffset(zone, day) ==
    CASE zone = "UTC" -> 0
      [] zone = "Asia/Shanghai" -> 8
      [] zone = "America/New_York" -> IF day <= 20156 THEN 0 - 5 ELSE 0 - 4
      [] zone = "Europe/London" -> IF day <= 20177 THEN 0 ELSE 1

\* int(naive_datetime.timestamp() * 1000) of a day's midnight: the instant
\* of the local midnight, which is UtcOffset hours before the UTC midnight
Timestamp(zone, day) == EpochMs(day, 0 - UtcOffset(zone, day) * 3600 * 1000)

\* get_daily_volume: start_ts and end_ts of the request for date string s
StartTs(zone, s) == Timestamp(zone, Strptime(s))

EndTs(zone, s) == Timestamp(zone, Strptime(s) + 1)

InitWindow ==
    /\ CacheOff
    /\ sv = "historical"
    /\ spc = "off"
    /\ days \in 0..MaxDays
    /\ limit = 0
    /\ max_market_cap = 0
    /\ cg_market_caps = EmptyMap
    /\ contracts = <<>>
    /\ symbols = <<>>
    /\ futures = <<>>
    /\ results = <<>>
    /\ output = <<>>
    /\ wpc = "scan"
    /\ tz \in Zones
    /\ date_str \in DateStrs
    /\ offset = 0
    /\ check_date = ""
    /\ start_ts = EpochMs(0, 0)
    /\ end_ts = EpochMs(0, 0)

\* one iteration of the day loop: check_date is date_str minus i days, and
\* get_daily_volume computes the window of its request
RequestCandle ==
    /\ wpc = "scan"
    /\ offset < days
    /\ check_date' = Strftime(Strptime(date_str) - offset)
    /\ start_ts' = StartTs(tz, check_date')
    /\ end_ts' = EndTs(tz, check_date')
    /\ offset' = offset + 1
    /\ UNCHANGED << wpc, tz, date_str >>
    /\ UNCHANGED cacheVars
    /\ UNCHANGED screenVars

NextWindow == RequestCandle

SpecWindow == InitWindow /\ [][NextWindow]_vars

(***************************************************************************)
(* Properties of get_coingecko_market_caps (checked under Spec).           *)
(***************************************************************************)
\* the file is in the format the variant itself writes
OwnFormat(v, f) ==
    \/ v = "legacy" /\ f.fmt = "bare"
    \/ v = "timestamp" /\ f.fmt = "wrapped"

\* the age the variant computes: from the file's mtime, or from the embedded
\* timestamp
Age(v, f, t) == IF v = "legacy" THEN t - f.mtime ELSE t - f.ts

\* a readable cache record of the running variant was there when it was called
ReadableRecord == fileAtCall.exists /\ readable /\ OwnFormat(variant, fileAtCall)

\* the call refetched and no page gave it an entry
EmptyRefetch == pc = "done" /\ ~hit /\ market_caps = EmptyMap

\* an upper-case ticker
IsUpper(s) == s \in {"A", "B", "C", "BTC", "ETH"}

\* every key upper-case, every value a number above 0
GoodSnapshot(m) == \A k \in DOMAIN m : IsUpper(k) /\ m[k] > 0

\* C1: stale-cache fallback.  When a readable cache record exists, its age is
\* at or above cache_ttl and the refetch obtains zero entries, the call
\* returns exactly the mapping stored in the file before the call.
C1_StaleFallback ==
    (EmptyRefetch /\ ReadableRecord /\ Age(variant, fileAtCall, now) >= CacheTtl)
        => result = Caps(fileAtCall.data)

\* C2: a call whose refetch obtained zero entries leaves a cache file that
\* existed before the call as it was (a stored snapshot is never replaced by
\* an empty one), and a call whose refetch obtained entries returns them
\* whether or not the file could be written.
C2_WriteOnlyNonEmpty ==
    /\ (EmptyRefetch /\ fileAtCall.exists /\ OwnFormat(variant, fileAtCall)) => file = fileAtCall
    /\ (pc = "done" /\ ~hit /\ market_caps # EmptyMap) => result = Caps(market_caps)

\* C3: cache hit.  With a readable cache record whose age is strictly below
\* cache_ttl the call returns the stored mapping and issues no HTTP request;
\* with an age equal to or above cache_ttl it refetches.
C3_CacheHit ==
    (pc \in {"fetch", "done"} /\ ReadableRecord) =>
        /\ Age(variant, fileAtCall, now) < CacheTtl =>
               (pc = "done" /\ hit /\ requests = 0 /\ result = Caps(fileAtCall.data))
        /\ Age(variant, fileAtCall, now) >= CacheTtl =>
               (~hit /\ (pc = "done" => requests >= 1))

C3_Witness ==
    /\ pc = "done" /\ ReadableRecord /\ hit /\ requests = 0
    /\ Age(variant, fileAtCall, now) = CacheTtl - 1
    /\ result = Caps(SomeCaps)

\* the step in which the variant that just returned is called again
SecondCall == pc = "done" /\ (\E r \in BOOLEAN : Call(variant, r))

\* C5 as claimed: whatever the cache file and the requests' outcomes were,
\* a second call within cache_ttl of the first performs zero network requests
\* and returns a mapping equal to the first call's (stated here for second
\* calls that can read the cache file).
C5_IdempotentAlways ==
    [][ (SecondCall /\ clock - now < CacheTtl /\ readable')
            => (pc' = "done" /\ requests' = 0 /\ result' = result) ]_vars

\* C5 as amended: the same, when the cache file is readable at the second call
\* and the first call either refetched a non-empty mapping and wrote it to the
\* cache file, or was served from a cache record that is still younger than
\* cache_ttl at the second call.
C5_IdempotentAfterStore ==
    [][ ( /\ SecondCall
          /\ clock - now < CacheTtl
          /\ readable'
          /\ \/ ~hit /\ market_caps # EmptyMap /\ writable
             \/ hit /\ Age(variant, file, clock) < CacheTtl )
            => (pc' = "done" /\ requests' = 0 /\ result' = result) ]_vars

\* a call served, without a request, from a record written in this behaviour
C5_Witness ==
    /\ pc = "done" /\ hit /\ requests = 0
    /\ fileAtCall.mtime >= StartTime
    /\ OwnFormat(variant, fileAtCall)
    /\ fileAtCall.data # EmptyMap
    /\ result = Caps(fileAtCall.data)

\* C6: snapshot invariant.  In every mapping returned and in every mapping
\* persisted, every key is an upper-case symbol and every value is a number
\* strictly greater than 0.
C6_SnapshotInvariant ==
    /\ result.kind = "caps" => GoodSnapshot(result.data)
    /\ file.fmt \in {"bare", "wrapped"} => GoodSnapshot(file.data)

\* C7: the call never raises; it returns a mapping for every cache-file state
\* and every outcome of the page requests, and the empty mapping when the
\* cache file is absent and every page request fails.
C7_NeverRaises ==
    /\ result.kind # "raised"
    /\ pc = "done" => result.kind \in {"caps", "wrapper"}
    /\ (pc = "done" /\ ~fileAtCall.exists /\ fails = requests) => result = Caps(EmptyMap)

C7_Witness ==
    /\ pc = "done" /\ ~fileAtCall.exists
    /\ requests >= 1 /\ fails = requests
    /\ result = Caps(EmptyMap)

(***************************************************************************)
(* Properties of get_high_volume_to_marketcap_contracts (checked under     *)
(* SpecScreen).                                                            *)
(***************************************************************************)
Range(q) == { q[n] : n \in 1..Len(q) }

SymbolsOf(q) == { q[n].symbol : n \in 1..Len(q) }

\* the three-symbol scenario of the specification: the catalog, the market
\* caps, a lookback of one day
ScenarioSymbols == << "AUSDT", "BUSDT", "CUSDT" >>

ScenarioCaps == [A |-> 100, B |-> 200, C |-> 0]

\* the task of a symbol saw this volume on the last day it examined
TaskSaw(symbol, volume) ==
    \E k \in 1..Len(futures) :
        /\ futures[k].symbol = symbol
        /\ futures[k].i >= 1
        /\ futures[k].volume_usdt = volume

\* the 24h ticker of a symbol carries this quoteVolume
TickerHas(symbol, volume) ==
    \E n \in 1..Len(contracts) :
        contracts[n].symbol = symbol /\ contracts[n].quoteVolume = volume

\* C4: the screening threshold is strict in every variant: no returned result
\* has a ratio equal to (or below) the threshold.
C4_StrictThreshold ==
    \A r \in Range(output) : RatioGT(r.ratio, threshold)

\* C8: ranking.  The returned list has non-increasing ratios, is at most
\* `limit` long, and holds the highest-ratio qualifying results: it leaves out
\* no more results than the limit forces, and none with a ratio strictly
\* greater than a returned one.
C8_Ranking ==
    spc = "done" =>
        /\ Len(output) <= limit
        /\ \A n \in 1..Len(output), m \in 1..Len(output) :
               n < m => RatioGE(output[n].ratio, output[m].ratio)
        /\ Range(output) \subseteq Range(results)
        /\ Len(output) = (IF limit < Len(results) THEN limit ELSE Len(results))
        /\ \A r \in Range(results) \ Range(output) :
               \A o \in Range(output) : RatioGE(o.ratio, r.ratio)

\* two results came in ascending ratio order, and the limit kept only the
\* greater one
C8_Witness ==
    /\ spc = "done" /\ sv # "live"
    /\ Len(results) = 2 /\ limit = 1
    /\ RatioGT(results[2].ratio, results[1].ratio)
    /\ output = << results[2] >>

\* C9: exclusion.  No returned result has a base ticker in {BTC, ETH},
\* whatever its ratio, and no task (hence no volume lookup) exists for an
\* excluded symbol.
C9_Exclusion ==
    /\ \A r \in Range(results) \cup Range(output) : Base(r.symbol) \notin {"BTC", "ETH"}
    /\ \A k \in 1..Len(futures) : Base(futures[k].symbol) \notin {"BTC", "ETH"}

\* the live screener returned results although BTC's 24h volume equals its
\* market cap
C9_Witness ==
    /\ spc = "done" /\ sv = "live"
    /\ TickerHas("BTCUSDT", 100)
    /\ MapGet(cg_market_caps, "BTC") = 100
    /\ output # <<>>

\* C10: eligibility.  A symbol whose base ticker is absent from the snapshot
\* or has market cap zero yields no result and no task (hence no volume
\* lookup); in the scenario (symbols AUSDT/BUSDT/CUSDT, caps A=100, B=200,
\* C=0, threshold 0.5, one day, volumes A=60, B=90, a limit of at least 1)
\* the returned symbols are exactly {AUSDT}.
C10_Eligibility ==
    /\ \A r \in Range(results) \cup Range(output) :
           /\ Base(r.symbol) \in DOMAIN cg_market_caps
           /\ cg_market_caps[Base(r.symbol)] > 0
           /\ r.market_cap = cg_market_caps[Base(r.symbol)]
    /\ \A k \in 1..Len(futures) :
           /\ futures[k].base \in DOMAIN cg_market_caps
           /\ cg_market_caps[futures[k].base] > 0
    /\ ( /\ spc = "done" /\ sv # "live"
         /\ symbols = ScenarioSymbols /\ cg_market_caps = ScenarioCaps
         /\ days = 1 /\ limit >= 1
         /\ TaskSaw("AUSDT", 60) /\ TaskSaw("BUSDT", 90) )
           => SymbolsOf(output) = {"AUSDT"}
    /\ ( /\ spc = "done" /\ sv = "live"
         /\ SymbolsOf(contracts) = Range(ScenarioSymbols) /\ cg_market_caps = ScenarioCaps
         /\ limit >= 1
         /\ TickerHas("AUSDT", 60) /\ TickerHas("BUSDT", 90) )
           => SymbolsOf(output) = {"AUSDT"}

C10_Witness ==
    /\ spc = "done" /\ sv = "historical"
    /\ symbols = ScenarioSymbols /\ cg_market_caps = ScenarioCaps
    /\ days = 1 /\ limit >= 1
    /\ TaskSaw("AUSDT", 60) /\ TaskSaw("BUSDT", 90)
    /\ SymbolsOf(output) = {"AUSDT"}

\* C11: market-cap ceiling.  In the variant with max_market_cap no collected
\* or returned result has a market cap above max_market_cap, and a symbol
\* that is not excluded and whose market cap equals max_market_cap is given a
\* task.
C11_Ceiling ==
    sv = "ceiling" =>
        /\ \A r \in Range(results) \cup Range(output) : r.market_cap <= max_market_cap
        /\ spc \in {"run", "done"} =>
               \A n \in 1..Len(symbols) :
                   ( /\ Base(symbols[n]) \notin {"BTC", "ETH"}
                     /\ MapGet(cg_market_caps, Base(symbols[n])) = max_market_cap )
                       => \E k \in 1..Len(futures) : futures[k].symbol = symbols[n]

\* a symbol at the ceiling was returned while a listed symbol above it got no
\* task
C11_Witness ==
    /\ sv = "ceiling" /\ spc = "done"
    /\ \E r \in Range(output) : r.market_cap = max_market_cap
    /\ \E n \in 1..Len(symbols) :
           /\ MapGet(cg_market_caps, Base(symbols[n])) > max_market_cap
           /\ \A k \in 1..Len(futures) : futures[k].symbol # symbols[n]

\* how a screener call ends: normally with a list, or by raising
Outcome == [ended |-> spc, list |-> output]

\* the outcome of a run that had market caps and in which no symbol qualified
NoneQualified == [ended |-> "done", list |-> <<>>]

\* C12: a call whose market-cap fetch returned the empty mapping does not end
\* like a call that had market caps and found no qualifying symbol: it does
\* not return normally with the empty list.
C12_EmptyCapsDistinct ==
    (spc \in {"done", "raised"} /\ cg_market_caps = EmptyMap) => Outcome # NoneQualified

\* the step in which the catalog request fails
CatalogFails ==
    \/ \E listings \in Catalogs : GetUsdtPerpetualSymbols(FALSE, listings)
    \/ GetAllUsdtContracts(FALSE, <<>>, <<>>)

\* C13: catalog failure is fatal.  The step in which the catalog request
\* fails makes the call raise; a call that raised has no result list and no
\* task, and takes no further step (no volume lookup is ever started).
C13_CatalogFatal ==
    [][ /\ CatalogFails => spc' = "raised"
        /\ spc' = "raised" => (output' = <<>> /\ results' = <<>> /\ futures' = <<>>)
        /\ spc # "raised" ]_vars

\* the historical screener had its market caps and raised on the catalog
C13_Witness ==
    /\ spc = "raised" /\ sv = "historical"
    /\ cg_market_caps # EmptyMap
    /\ symbols = <<>> /\ futures = <<>> /\ output = <<>>

(***************************************************************************)
(* Properties of the page loop (checked under Spec).                       *)
(***************************************************************************)
\* every record of the page has a symbol and a market cap above 0
WellFormed(items) ==
    \A n \in 1..Len(items) :
        items[n].hasSymbol /\ items[n].hasCap /\ items[n].market_cap > 0

\* the page's last record for ticker k, if the page has one
LastFor(items, k) ==
    { n \in 1..Len(items) :
        /\ Upper(items[n].symbol) = k
        /\ \A m \in (n + 1)..Len(items) : Upper(items[m].symbol) # k }

\* pages are requested in ascending order: the loop variable goes up by one,
\* or the loop is over
AscendingPages == page' = page + 1 \/ page' > Pages

\* a page that failed or had no entries ends the loop: no higher page is
\* requested
StopsAfter(p) == (~p.ok \/ p.items = <<>>) => page' > Pages

\* what was merged before stays, except where this page has a record for the
\* same ticker, and a well-formed page's last record for a ticker is what
\* the mapping holds afterwards
MergesPage(p) ==
    /\ \A k \in DOMAIN market_caps :
           /\ k \in DOMAIN market_caps'
           /\ market_caps'[k] # market_caps[k] =>
                  \E n \in 1..Len(p.items) : Upper(p.items[n].symbol) = k
    /\ (p.ok /\ WellFormed(p.items)) =>
           \A n \in 1..Len(p.items) :
               n \in LastFor(p.items, Upper(p.items[n].symbol)) =>
                   MapGet(market_caps', Upper(p.items[n].symbol)) = p.items[n].market_cap

\* C14: page-fetch ordering and early stop.  Pages are requested in ascending
\* order; after a page request that fails or returns no entries no higher
\* page is requested; the entries merged before the stop are kept and
\* returned, a later record overwriting an earlier one for the same ticker.
C14_PageOrder ==
    [][ /\ \A p \in PageOutcomes :
               FetchPage(p) => (AscendingPages /\ StopsAfter(p) /\ MergesPage(p))
        /\ (pc = "fetch" /\ pc' = "done" /\ market_caps # EmptyMap) =>
               result' = Caps(market_caps) ]_vars

(***************************************************************************)
(* Properties of _check_symbol_volume_ratio (checked under SpecScreen).    *)
(* A step of a worker is CheckDay(k, v, tk): task k looks up the volume of *)
(* the day at offset futures[k].i and gets v.                              *)
(***************************************************************************)
\* the volume the worker goes on with after a lookup that gave v
Taken(v) == IF v = FAIL THEN 0 ELSE v

\* C15: first-qualifying-day scan.  A task looks up the days at offsets
\* 0, 1, ..., days-1 in that order, and only while no day has qualified; the
\* day qualifies exactly when its ratio exceeds the threshold, and then the
\* task ends with a result carrying that day's volume and ratio; a task that
\* ends without a qualifying day (days = 0 included) gives no result; the
\* returned list has at most one result per symbol.
C15_FirstQualifyingDay ==
    [][ /\ \A k \in 1..Len(futures), v \in Volumes \cup {FAIL}, tk \in Tickers :
               CheckDay(k, v, tk) =>
                   LET t == futures[k]
                       u == futures'[k]
                   IN /\ ~t.found /\ t.i < days
                      /\ u.i = t.i + 1
                      /\ u.found <=> RatioGT(Ratio(Taken(v), t.market_cap), threshold)
                      /\ u.found =>
                             /\ u.state = "done"
                             /\ u.res.symbol = t.symbol
                             /\ u.res.volume_usdt = Taken(v)
                             /\ u.res.ratio = Ratio(Taken(v), t.market_cap)
                      /\ ~u.found => u.state = (IF u.i < days THEN "running" ELSE "done")
        /\ \A k \in 1..Len(futures) :
               Collect(k) =>
                   results' = (IF futures[k].found THEN Append(results, futures[k].res)
                               ELSE results)
        /\ \A k \in 1..Len(futures') :
               futures'[k].found => (1 <= futures'[k].i /\ futures'[k].i <= days)
        /\ \A n \in 1..Len(output'), m \in 1..Len(output') :
               output'[n].symbol = output'[m].symbol => n = m ]_vars

\* with a lookback of two days a task stopped at offset 0, and its result was
\* returned; another went on to offset 1 and found nothing
C15_Witness ==
    /\ spc = "done" /\ sv # "live" /\ days = 2
    /\ \E k \in 1..Len(futures) :
           /\ futures[k].found /\ futures[k].i = 1
           /\ futures[k].res \in Range(output)
    /\ \E k \in 1..Len(futures) : ~futures[k].found /\ futures[k].i = 2

\* the results of the tasks that found a day, in submission order: what
\* `results` holds when the tasks complete in the order they were submitted
RECURSIVE InSubmissionOrder(_)
InSubmissionOrder(tasks) ==
    IF tasks = <<>> THEN <<>>
    ELSE IF Head(tasks).found
         THEN << Head(tasks).res >> \o InSubmissionOrder(Tail(tasks))
         ELSE InSubmissionOrder(Tail(tasks))

\* C16: completion order does not affect the output.  Whatever the order in
\* which the tasks completed, the call returns the list it returns when they
\* complete in submission order on the same data (equal ratios and a
\* truncating limit included).
C16_OrderIndependent ==
    (spc = "done" /\ sv # "live") =>
        output = Truncate(SortDesc(InSubmissionOrder(futures)), limit)

\* C17: per-day volume degradation.  When the lookup of a day raises or finds
\* no candle, the task takes the day's volume as 0, does not qualify on that
\* day and goes on to the next older day if one is left; no other task and
\* not the call itself is affected; an older day (offset >= 1) whose ratio
\* exceeds the threshold gives the task its result; the call raises only when
\* no task exists (the catalog request failed).
C17_VolumeDegradation ==
    [][ /\ \A k \in 1..Len(futures), resp \in Responses, tk \in Tickers :
               (resp.kind # "candle" /\ CheckDay(k, get_daily_volume(resp), tk)) =>
                   /\ futures'[k].volume_usdt = 0
                   /\ ~futures'[k].found
                   /\ futures'[k].i = futures[k].i + 1
                   /\ futures'[k].state =
                          (IF futures[k].i + 1 < days THEN "running" ELSE "done")
                   /\ \A j \in 1..Len(futures) : j # k => futures'[j] = futures[j]
                   /\ spc' = "run" /\ results' = results
        /\ \A k \in 1..Len(futures), resp \in Responses, tk \in Tickers :
               ( /\ CheckDay(k, get_daily_volume(resp), tk)
                 /\ futures[k].i >= 1
                 /\ resp.kind = "candle"
                 /\ RatioGT(Ratio(resp.close * resp.volume, futures[k].market_cap), threshold) )
                   => /\ futures'[k].found
                      /\ futures'[k].res.volume_usdt = resp.close * resp.volume
        /\ \A k \in 1..Len(futures') : futures'[k].state # "raised"
        /\ spc' = "raised" => futures' = <<>> ]_vars

\* a task whose lookup at offset 0 gave it the volume 0 (every candle volume
\* of the model exceeds the threshold on a market cap of 100, so the lookup
\* raised or found no candle) found its day at offset 1, and its result was
\* returned
C17_Witness ==
    /\ spc = "done" /\ sv # "live"
    /\ \E k \in 1..Len(futures) :
           /\ futures[k].market_cap = 100
           /\ futures[k].found /\ futures[k].i = 2
           /\ futures[k].res \in Range(output)

(***************************************************************************)
(* Properties of a direct call of _check_symbol_volume_ratio (checked      *)
(* under SpecWorker).                                                      *)
(***************************************************************************)
\* C18: no division by a zero market cap.  No call of
\* _check_symbol_volume_ratio ends in an error (ZeroDivisionError is the one
\* error that can leave it), no ratio has the denominator 0, and a call with
\* market_cap = 0 skips every day and returns no result.
C18_NoZeroDivision ==
    /\ spc # "raised"
    /\ \A k \in 1..Len(futures) :
           /\ futures[k].state # "raised"
           /\ futures[k].found => futures[k].res.ratio.den # 0
           /\ (futures[k].market_cap = 0 /\ futures[k].state = "done") =>
                  (~futures[k].found /\ futures[k].i = days)

(***************************************************************************)
(* Further properties of the workers (checked under SpecScreen).           *)
(***************************************************************************)
\* C19: ticker-enrichment degradation.  When a day qualifies and the live
\* ticker request fails, the task still ends with that symbol's result: the
\* symbol, the day's volume, the market cap, the ratio and the tag are what
\* they are with a ticker, and price and change are both 0.
C19_TickerDegradation ==
    [][ \A k \in 1..Len(futures), resp \in Responses, tk \in Tickers :
            ( /\ CheckDay(k, get_daily_volume(resp), tk)
              /\ ~tk.ok
              /\ RatioGT(Ratio(Taken(get_daily_volume(resp)), futures[k].market_cap),
                         threshold) )
                => /\ futures'[k].found /\ futures'[k].state = "done"
                   /\ futures'[k].res =
                          [symbol |-> futures[k].symbol,
                           volume_usdt |-> Taken(get_daily_volume(resp)),
                           market_cap |-> futures[k].market_cap,
                           ratio |-> Ratio(Taken(get_daily_volume(resp)),
                                           futures[k].market_cap),
                           price |-> 0,
                           change |-> 0,
                           tag |-> << futures[k].base, "/USDT:USDT" >>] ]_vars

\* a result whose ticker request failed was returned beside one whose ticker
\* request succeeded
C19_Witness ==
    /\ spc = "done" /\ sv # "live"
    /\ \E r \in Range(output) : r.price = 0 /\ r.change = 0 /\ r.volume_usdt = 60
    /\ \E r \in Range(output) : r.price = 7 /\ r.change = 3

(***************************************************************************)
(* Properties of get_daily_volume's request (checked under SpecWindow).    *)
(***************************************************************************)
\* the instant of 00:00 UTC of a day
UtcMidnightMs(day) == [day |-> day, ms |-> 0]

\* C20: the candle window is UTC-aligned.  In every time zone of the process
\* and for every date, startTime is that date's 00:00 UTC and endTime the
\* following date's 00:00 UTC, 86,400,000 ms later.
C20_UtcWindow ==
    (wpc = "scan" /\ offset >= 1) =>
        /\ start_ts = UtcMidnightMs(Strptime(check_date))
        /\ end_ts = UtcMidnightMs(Strptime(check_date) + 1)
        /\ MsBetween(start_ts, end_ts) = 86400000

(***************************************************************************)
(* Properties of the two cache formats on one file (checked under Spec,    *)
(* whose behaviours are sequences of calls of either variant).             *)
(***************************************************************************)
\* C22: cache-format compatibility.  Whatever calls of the legacy and the
\* timestamp variant came before on the same cache file, a call returns a
\* mapping from tickers to market caps: the legacy variant never returns the
\* {"timestamp", "data"} wrapper, and the timestamp variant, when served from
\* the cache, returns the symbol data stored in a wrapper.
C22_FormatCompatible ==
    pc = "done" =>
        /\ result.kind = "caps"
        /\ (variant = "timestamp" /\ hit) =>
               (fileAtCall.fmt = "wrapped" /\ result = Caps(fileAtCall.data))

(***************************************************************************)
(* Properties of the orchestrating path (checked under SpecRun).           *)
(***************************************************************************)
\* how far the screener call has come
Rank(at) ==
    CASE at = "start" -> 0
      [] at = "caps" -> 1
      [] at = "ready" -> 2
      [] at = "run" -> 3
      [] OTHER -> 4

\* a step of some pool worker
WorkerStep ==
    \E k \in 1..Len(futures), resp \in Responses, tk \in Tickers :
        CheckDay(k, get_daily_volume(resp), tk)

\* C21: single orchestrating path.  The call never goes back; every step of
\* get_coingecko_market_caps (every read and write of the cache file) is
\* taken before the snapshot is bound, and none after the call returned or
\* once tasks exist; the snapshot is bound in one step, from the finished
\* cache call, and the catalog is fetched in the one step that follows; a
\* worker's step leaves the cache file, the cache call's state, the snapshot
\* and the catalog as they are.
C21_SingleOrchestrator ==
    [][ /\ Rank(spc') >= Rank(spc)
        /\ cacheVars' # cacheVars =>
               /\ spc = "start" /\ spc' = "start"
               /\ pc # "done"
               /\ futures = <<>> /\ futures' = <<>>
        /\ spc' # spc =>
               /\ spc = "start" =>
                      (spc' = "caps" /\ pc = "done" /\ cg_market_caps' = AsSnapshot(result))
               /\ spc = "caps" => spc' \in {"ready", "raised"}
        /\ cg_market_caps' # cg_market_caps => (spc = "start" /\ spc' = "caps")
        /\ symbols' # symbols => (spc = "caps" /\ spc' = "ready")
        /\ futures' # <<>> => pc = "done"
        /\ WorkerStep =>
               /\ cacheVars' = cacheVars
               /\ cg_market_caps' = cg_market_caps
               /\ symbols' = symbols ]_vars

\* the call refetched the market caps and wrote the cache file, then ran its
\* tasks and returned a result
C21_Witness ==
    /\ spc = "done" /\ pc = "done"
    /\ ~hit /\ requests >= 1
    /\ file # fileAtCall /\ file.data = cg_market_caps
    /\ \E k \in 1..Len(futures) : futures[k].i >= 1
    /\ output # <<>>

====
